---------------------------- MODULE Spec2Model ----------------------------
(***************************************************************************)
(* The Palmer Penguins dashboard of src/streamlit_app.py as a state        *)
(* machine.  The host framework re-runs the script top to bottom on every  *)
(* user interaction; one run is modelled as the walk of pc through the     *)
(* script's sections: load_data (cached), the sidebar widgets, the         *)
(* filtering of the dataframe, the empty-selection check, and the three    *)
(* rendering sections.                                                     *)
(*                                                                         *)
(* Numbers.  The script computes in binary floating point.  Every float of *)
(* the model is held as an exact integer count of a unit:                  *)
(*   body_mass_g     in 1/MassUnit gram,   MassUnit a power of two,        *)
(*   bill_length_mm  in 1/BillUnit mm,     BillUnit a power of two,        *)
(*   rounded means   in tenths (round(x, 1)),                              *)
(*   the kg label    in hundredths of a kg ("{x:.2f}").                    *)
(* Units that are powers of two make every input, and every sum of         *)
(* inputs, an exactly representable double, so the only roundings are the  *)
(* ones the script asks for, and those are modelled as IEEE-754 performs   *)
(* them (see round1 and format_2f_kg).                                     *)
(***************************************************************************)
EXTENDS Integers, Sequences, FiniteSets, TLC

(***************************************************************************)
(* Bounds of the model.                                                    *)
(***************************************************************************)
\* Largest number of rows of the remote CSV.
MaxRows == 3

\* Largest number of failed fetches of the remote CSV in one behaviour.
MaxFailures == 1

(***************************************************************************)
(* Units.                                                                  *)
(***************************************************************************)
MassUnit == 2 ^ 5

BillUnit == 2 ^ 1

Grams(g) == g * MassUnit

(***************************************************************************)
(* The rows the remote CSV is built from.  `na` is the set of columns      *)
(* whose cell is empty or NA in the file; a cell named in `na` has no      *)
(* value (the value written here is a placeholder that nothing reads).     *)
(***************************************************************************)
CsvRow(sp, isl, bl, bd, mass, sx, missing) ==
    [species |-> sp, island |-> isl, bill_length_mm |-> bl,
     bill_depth_mm |-> bd, body_mass_g |-> mass, sex |-> sx, na |-> missing]

\* Adelie,Torgersen,39.5,18.5,3750,male
RowAdelieMale == CsvRow("Adelie", "Torgersen", 79, 37, Grams(3750), "male", {})

\* Gentoo,Biscoe,46.0,13.0,4500,female
RowGentooFemale == CsvRow("Gentoo", "Biscoe", 92, 26, Grams(4500), "female", {})

\* Chinstrap,Biscoe,49.5,18.0,3755.03125,female : a body mass that is not a
\* whole number of grams.
RowChinstrapFraction ==
    CsvRow("Chinstrap", "Biscoe", 99, 36, Grams(3755) + 1, "female", {})

\* Adelie,Torgersen,NA,NA,NA,NA,NA : the measurements are missing.
RowAdelieMissing ==
    CsvRow("Adelie", "Torgersen", 0, 0, 0, "NA",
           {"bill_length_mm", "bill_depth_mm", "flipper_length_mm",
            "body_mass_g", "sex"})

Penguins ==
    {RowAdelieMale, RowGentooFemale, RowChinstrapFraction, RowAdelieMissing}

\* Every CSV file of at most MaxRows rows.
CsvFiles == UNION {[1..n -> Penguins] : n \in 0..MaxRows}

(***************************************************************************)
(* pandas.                                                                 *)
(***************************************************************************)
\* pd.read_csv: the rows of the file in file order, labelled by the
\* RangeIndex 0, 1, 2, ...
read_csv(csv) ==
    [i \in 1..Len(csv) |-> [index |-> i - 1] @@ csv[i]]

\* DataFrame.isna().any(axis=1) of one row.
isna(row) == row.na # {}

\* dropna(subset=["species"]): only a missing species removes a row.
dropna_species_only(frame) == SelectSeq(frame, LAMBDA r : "species" \notin r.na)

\* DataFrame.dropna(): the rows without a missing cell, order and index
\* labels kept.
dropna(frame) == SelectSeq(frame, LAMBDA r : ~isna(r))

\* frame[col]: one column as a sequence.
Column(frame, col) == [i \in 1..Len(frame) |-> frame[i][col]]

\* Series.unique(): the distinct values of a column.  The order of first
\* appearance only orders the widget's option list.
unique(series) == {series[i] : i \in 1..Len(series)}

\* frame[frame[col].isin(values)]
isin(frame, col, values) == SelectSeq(frame, LAMBDA r : r[col] \in values)

\* The slider filter without its second clause.
between_no_upper(frame, lo, hi) ==
    SelectSeq(frame, LAMBDA r : r.body_mass_g >= Grams(lo))

\* The slider filter with < for <= in its second clause.
between_strict_upper(frame, lo, hi) ==
    SelectSeq(frame, LAMBDA r : r.body_mass_g >= Grams(lo) /\ r.body_mass_g < Grams(hi))

\* frame[(frame[col] >= lo) & (frame[col] <= hi)] with lo, hi whole grams.
between(frame, lo, hi) ==
    SelectSeq(frame, LAMBDA r : r.body_mass_g >= Grams(lo) /\ r.body_mass_g <= Grams(hi))

RECURSIVE Sum(_)
Sum(series) ==
    IF series = <<>> THEN 0 ELSE Head(series) + Sum(Tail(series))

\* Series.min() and Series.max() of a non-empty series.
SeriesMin(series) ==
    CHOOSE x \in unique(series) : \A y \in unique(series) : x <= y

SeriesMax(series) ==
    CHOOSE x \in unique(series) : \A y \in unique(series) : x >= y


(***************************************************************************)
(* Rounding and formatting of floats.                                      *)
(***************************************************************************)
\* The integer nearest to num/den, a tie going to the even neighbour.
RoundHalfEven(num, den) ==
    LET q == num \div den
        r == num % den
    IN  IF 2 * r < den THEN q
        ELSE IF 2 * r > den THEN q + 1
        ELSE IF q % 2 = 0 THEN q ELSE q + 1

\* round(x, 1) of the float x = num/den, in tenths.  round() rounds the
\* double it is given correctly, a tie going to the even digit.  For means of
\* fewer than five of the modelled values every tie num/den = k + 0.05 is a
\* multiple of 1/4, so the double holds it exactly and the tie is seen; off a
\* tie the double is within an ulp of num/den and rounds as num/den does.
round1(num, den) == RoundHalfEven(10 * num, den)

RECURSIVE PowMod2(_, _)
\* 2^e modulo m.
PowMod2(e, m) == IF e = 0 THEN 1 % m ELSE (2 * PowMod2(e - 1, m)) % m

RECURSIVE ShiftDown(_)
\* For g >= 1000: the k with 1000 * 2^k <= g < 1000 * 2^(k+1).
ShiftDown(g) == IF g < 2000 THEN 0 ELSE 1 + ShiftDown(g \div 2)

RECURSIVE ShiftUp(_)
\* For 0 < g < 1000: the j with 1000 <= g * 2^j < 2000.
ShiftUp(g) == IF g >= 1000 THEN 0 ELSE 1 + ShiftUp(2 * g)

\* The double g / 1000 for a whole g > 0 (both operands exact doubles, the
\* quotient correctly rounded to a 53-bit significand).  With e the exponent
\* that puts g * 2^e / 1000 in [2^52, 2^53), the significand is
\* g * 2^e / 1000 rounded to an integer, so the remainder of g * 2^e by 1000
\* tells where the double lies: 0 when it is g/1000 exactly, above 500 when
\* it was rounded up, below 500 when it was rounded down.
QuotientRemainder(g) ==
    LET e == IF g >= 1000 THEN 52 - ShiftDown(g) ELSE 52 + ShiftUp(g)
    IN  ((g % 1000) * PowMod2(e, 1000)) % 1000

\* The digits of f"{x / 1000:.2f}" for the float x = num/den > 0, as the
\* number of hundredths shown.  x / 1000 is a double; the format rounds that
\* double's exact value, a tie going to the even digit.  x/1000 lies half way
\* between two hundredths only when x is a whole number ending in 5, and then
\* the side the double x / 1000 lies on decides.
format_2f_kg(num, den) ==
    LET q == num \div (10 * den)
        r == num % (10 * den)
        side == QuotientRemainder(10 * q + 5)
    IN  IF 2 * r < 10 * den THEN q
        ELSE IF 2 * r > 10 * den THEN q + 1
        ELSE IF side > 500 THEN q + 1
        ELSE IF side > 0 THEN q
        ELSE IF q % 2 = 0 THEN q ELSE q + 1

\* The text of a two-decimal number of hundredths h: the integer part, the
\* tenths digit and the hundredths digit ("3.75" is <<3, 7, 5>>).
FixedPoint2(h) == <<h \div 100, (h \div 10) % 10, h % 10>>

\* int(x) of a float x >= 0 held in 1/MassUnit: truncation.
int(x) == x \div MassUnit

(***************************************************************************)
(* The sections of the script, as functions of the dataframe.              *)
(***************************************************************************)
\* Lines 74-90: the copy of df, the three multiselect filters (each applied
\* only when something is selected) and the slider filter (always applied).
df_selection_of(frame, sp, isl, sx, slider) ==
    LET s0 == frame
        s1 == IF sp # {} THEN isin(s0, "species", sp) ELSE s0
        s2 == IF isl # {} THEN isin(s1, "island", isl) ELSE s1
        s3 == IF sx # {} THEN isin(s2, "sex", sx) ELSE s2
    IN  between(s3, slider[1], slider[2])

\* Line 110: round(df_selection["bill_length_mm"].mean(), 1), in tenths of mm.
avg_bill_length_of(sel) ==
    round1(Sum(Column(sel, "bill_length_mm")), BillUnit * Len(sel))

\* Line 113: round(df_selection["body_mass_g"].mean(), 1), in tenths of g.
avg_body_mass_of(sel) ==
    round1(Sum(Column(sel, "body_mass_g")), MassUnit * Len(sel))

\* Line 114: f"{avg_body_mass / 1000:.2f} kg"
avg_body_mass_label(avg_body_mass) ==
    FixedPoint2(format_2f_kg(avg_body_mass, 10))

\* The species names in ascending string order.
SpeciesSorted == <<"Adelie", "Chinstrap", "Gentoo">>

RECURSIVE FirstSeen(_)
\* The distinct values of a series in the order each is first seen.
FirstSeen(series) ==
    IF series = <<>> THEN <<>>
    ELSE LET front == FirstSeen(SubSeq(series, 1, Len(series) - 1))
             last == series[Len(series)]
         IN  IF last \in unique(front) THEN front ELSE Append(front, last)

\* groupby('species', sort=False): the keys in the order of first appearance.
groupby_keys_unsorted(frame) == FirstSeen(Column(frame, "species"))

\* The group keys of frame.groupby('species'): groupby sorts its keys
\* (sort=True is the default), so they come in ascending string order.
groupby_keys(frame) ==
    SelectSeq(SpeciesSorted, LAMBDA k : k \in unique(Column(frame, "species")))

\* Line 144: df_selection.groupby('species')['body_mass_g'].mean().round(1),
\* a series of <<species, mean in tenths of g>> in the order of the keys.
avg_mass_by_species_of(sel) ==
    LET keys == groupby_keys(sel)
    IN  [i \in 1..Len(keys) |->
           LET group == isin(sel, "species", {keys[i]})
           IN  <<keys[i],
                 round1(Sum(Column(group, "body_mass_g")), MassUnit * Len(group))>>]

\* Lines 132-137: the points of the scatter chart.
scatter_points(sel) ==
    [i \in 1..Len(sel) |->
        <<sel[i].bill_length_mm, sel[i].bill_depth_mm, sel[i].species>>]

(***************************************************************************)
(* State.                                                                  *)
(***************************************************************************)
VARIABLES
    remote,             \* the CSV file behind the URL of load_data
    cache,              \* st.cache_data's store for load_data: <<>> or <<df>>
    fetches,            \* number of pd.read_csv(url) calls made so far
    loaded,             \* <<>>, or <<the Dataset the first completed load returned>>
    pc,                 \* the section the current run of the script is at
    outcome,            \* how the last run of the script ended
    served,             \* how load_data answered in this run: "hit" or "miss"
    df,                 \* the script's df
    species,            \* value of the species multiselect
    island,             \* value of the island multiselect
    sex,                \* value of the sex multiselect
    body_mass_slider,   \* value of the slider, <<low, high>>
    df_selection,       \* the script's df_selection
    warning,            \* st.warning was shown
    metrics,            \* <<>>, or <<the three st.metric values>>
    scatter_chart,      \* <<>>, or <<the points given to st.scatter_chart>>
    bar_chart,          \* <<>>, or <<avg_mass_by_species given to st.bar_chart>>
    dataframe           \* <<>>, or <<the frame given to st.dataframe>>

store == <<remote, cache, fetches, loaded>>

widgets == <<species, island, sex, body_mass_slider>>

page == <<warning, metrics, scatter_chart, bar_chart, dataframe>>

vars == <<remote, cache, fetches, loaded, pc, outcome, served, df, species,
          island, sex, body_mass_slider, df_selection, warning, metrics,
          scatter_chart, bar_chart, dataframe>>

\* A process that has just started: nothing cached, no run made yet.
Init ==
    /\ remote \in CsvFiles
    /\ cache = <<>>
    /\ fetches = 0
    /\ loaded = <<>>
    /\ pc = "idle"
    /\ outcome = "none"
    /\ served = "none"
    /\ df = <<>>
    /\ species = {}
    /\ island = {}
    /\ sex = {}
    /\ body_mass_slider = <<0, 0>>
    /\ df_selection = <<>>
    /\ warning = FALSE
    /\ metrics = <<>>
    /\ scatter_chart = <<>>
    /\ bar_chart = <<>>
    /\ dataframe = <<>>

(***************************************************************************)
(* The environment.                                                        *)
(***************************************************************************)
\* The maintainers of the remote file withdraw its rows: only the header
\* line is left.
UpstreamEdit ==
    /\ remote # <<>>
    /\ remote' = <<>>
    /\ UNCHANGED <<cache, fetches, loaded, pc, outcome, served, df, widgets,
                   df_selection, page>>

\* A user interaction: the framework runs the script again from its first
\* line, with an empty page and no script variable bound.
Rerun ==
    /\ pc = "idle"
    /\ pc' = "load_data"
    /\ outcome' = "running"
    /\ served' = "none"
    /\ df' = <<>>
    /\ species' = {}
    /\ island' = {}
    /\ sex' = {}
    /\ body_mass_slider' = <<0, 0>>
    /\ df_selection' = <<>>
    /\ warning' = FALSE
    /\ metrics' = <<>>
    /\ scatter_chart' = <<>>
    /\ bar_chart' = <<>>
    /\ dataframe' = <<>>
    /\ UNCHANGED store

(***************************************************************************)
(* Lines 16-26: df = load_data() under @st.cache_data.                     *)
(***************************************************************************)
\* load_data without @st.cache_data: never a hit.
cache_hit_never(c) == FALSE

\* st.cache_data's lookup for load_data(), which takes no argument: a hit
\* when a value is stored.
cache_hit(c) == c # <<>>

\* Lines 20-23, the body of load_data on a file that could be fetched and
\* parsed.
load_data(csv) == dropna(read_csv(csv))

\* The call is answered from the cache; load_data's body does not run.
LoadDataCached ==
    /\ pc = "load_data"
    /\ cache_hit(cache)
    /\ df' = cache[1]
    /\ served' = "hit"
    /\ pc' = "sidebar"
    /\ UNCHANGED <<store, outcome, widgets, df_selection, page>>

\* A miss: load_data's body runs, and its return value is stored.
LoadDataFetched ==
    /\ pc = "load_data"
    /\ ~cache_hit(cache)
    /\ fetches' = IF fetches <= MaxFailures + 1 THEN fetches + 1 ELSE fetches
    /\ cache' = <<load_data(remote)>>
    /\ loaded' = IF loaded = <<>> THEN cache' ELSE loaded
    /\ df' = cache'[1]
    /\ served' = "miss"
    /\ pc' = "sidebar"
    /\ UNCHANGED <<remote, outcome, widgets, df_selection, page>>

\* A miss on which pd.read_csv raises (the file cannot be fetched or parsed):
\* the exception ends the run and nothing is stored.
LoadDataUnavailable ==
    /\ pc = "load_data"
    /\ ~cache_hit(cache)
    /\ fetches < MaxFailures
    /\ fetches' = fetches + 1
    /\ pc' = "idle"
    /\ outcome' = "DataUnavailable"
    /\ UNCHANGED <<remote, cache, loaded, served, df, widgets, df_selection, page>>

(***************************************************************************)
(* Lines 42-69: the sidebar.                                               *)
(***************************************************************************)
\* Line 63.
min_mass_of(frame) == int(SeriesMin(Column(frame, "body_mass_g")))

max_mass_of(frame) == int(SeriesMax(Column(frame, "body_mass_g")))

\* Lines 64-69: the slider's default value.
slider_default(frame) == <<min_mass_of(frame), max_mass_of(frame)>>

\* The slider positions the model lets the user choose among: the two ends
\* and the whole grams of each body mass of the frame.
SliderStops(frame) ==
    {min_mass_of(frame), max_mass_of(frame)}
        \cup {int(m) : m \in unique(Column(frame, "body_mass_g"))}

\* The widgets return what the user has selected: any subset of each
\* multiselect's options, any low <= high pair of the slider's range.
Sidebar ==
    /\ pc = "sidebar"
    /\ df # <<>>
    /\ species' \in SUBSET unique(Column(df, "species"))
    /\ island' \in SUBSET unique(Column(df, "island"))
    /\ sex' \in SUBSET unique(Column(df, "sex"))
    /\ \E lo \in SliderStops(df), hi \in SliderStops(df) :
          /\ lo <= hi
          /\ body_mass_slider' = <<lo, hi>>
    /\ pc' = "filter"
    /\ UNCHANGED <<store, outcome, served, df, df_selection, page>>

\* On an empty df the multiselects are built with no options, and line 63
\* takes min() of an empty column, which is NaN: int(NaN) raises ValueError
\* and the run ends there.
SidebarValueError ==
    /\ pc = "sidebar"
    /\ df = <<>>
    /\ pc' = "idle"
    /\ outcome' = "ValueError"
    /\ UNCHANGED <<store, served, df, widgets, df_selection, page>>

(***************************************************************************)
(* Lines 74-157: the filtering, and one of the two ways the script ends.   *)
(***************************************************************************)
\* The check of lines 96-98 left out.
empty_never(frame) == FALSE

\* DataFrame.empty
empty(frame) == Len(frame) = 0

\* Lines 106-114.  The mean of an empty column is NaN, which round() keeps
\* and the format prints as "nan".
key_metrics(sel) ==
    IF Len(sel) = 0
    THEN [total |-> 0, avg_bill_length |-> "nan", avg_body_mass |-> "nan"]
    ELSE [total |-> Len(sel),
          avg_bill_length |-> avg_bill_length_of(sel),
          avg_body_mass |-> avg_body_mass_label(avg_body_mass_of(sel))]

\* Lines 74-98: the selection is empty, so st.warning is shown and st.stop()
\* halts the script.
EmptySelection ==
    /\ pc = "filter"
    /\ df_selection' = df_selection_of(df, species, island, sex, body_mass_slider)
    /\ empty(df_selection')
    /\ warning' = TRUE
    /\ pc' = "idle"
    /\ outcome' = "stopped"
    /\ UNCHANGED <<store, served, df, widgets, metrics, scatter_chart,
                   bar_chart, dataframe>>

\* Lines 74-157: the selection is not empty, so the script runs to its end:
\* the key metrics, the two charts and the raw data.
Render ==
    /\ pc = "filter"
    /\ df_selection' = df_selection_of(df, species, island, sex, body_mass_slider)
    /\ ~empty(df_selection')
    /\ metrics' = <<key_metrics(df_selection')>>
    /\ scatter_chart' = <<scatter_points(df_selection')>>
    /\ bar_chart' = <<avg_mass_by_species_of(df_selection')>>
    /\ dataframe' = <<df_selection'>>
    /\ pc' = "idle"
    /\ outcome' = "rendered"
    /\ UNCHANGED <<store, served, df, widgets, warning>>

Next ==
    \/ UpstreamEdit
    \/ Rerun
    \/ LoadDataCached
    \/ LoadDataFetched
    \/ LoadDataUnavailable
    \/ Sidebar
    \/ SidebarValueError
    \/ EmptySelection
    \/ Render

Spec == Init /\ [][Next]_vars

(***************************************************************************)
(* Vocabulary of the properties.                                           *)
(***************************************************************************)
\* The last run of the script computed a FilteredView and ended, either in
\* the warning or at the end of the script.
Finished == pc = "idle" /\ outcome \in {"stopped", "rendered"}

\* The body masses of a frame.
Masses(frame) == Column(frame, "body_mass_g")

RECURSIVE IsSubsequence(_, _)
\* sub is seq with some of its elements taken out.
IsSubsequence(sub, seq) ==
    IF sub = <<>> THEN TRUE
    ELSE IF seq = <<>> THEN FALSE
    ELSE IF Head(sub) = Head(seq) THEN IsSubsequence(Tail(sub), Tail(seq))
    ELSE IsSubsequence(sub, Tail(seq))

\* The four filter predicates on one record, for the current widget values.
SatisfiesCriteria(r) ==
    /\ species = {} \/ r.species \in species
    /\ island = {} \/ r.island \in island
    /\ sex = {} \/ r.sex \in sex
    /\ Grams(body_mass_slider[1]) <= r.body_mass_g
    /\ r.body_mass_g <= Grams(body_mass_slider[2])

\* No categorical filter is selected.
NoCategoricalSelection == species = {} /\ island = {} /\ sex = {}

(***************************************************************************)
(* C1                                                                      *)
(***************************************************************************)
\* C1: whenever a run has filtered, df_selection (the FilteredView) is an
\* order-preserving subsequence of the loaded Dataset, and each of its records
\* satisfies all four predicates at once: species, island and sex in their
\* selected set or that set empty, and low <= body_mass_g <= high.
FilteredViewIsMatchingSubsequence ==
    Finished =>
        /\ IsSubsequence(df_selection, loaded[1])
        /\ \A i \in 1..Len(df_selection) : SatisfiesCriteria(df_selection[i])

\* A run in which all three multiselects are in use, records were filtered
\* out and at least two are left.
FilteredViewWitness ==
    /\ Finished
    /\ species # {} /\ island # {} /\ sex # {}
    /\ Len(df_selection) >= 2
    /\ Len(df_selection) < Len(loaded[1])

(***************************************************************************)
(* C2                                                                      *)
(***************************************************************************)
\* C2: a run whose FilteredView is empty shows the warning and stops, with no
\* metric, no chart, no bar-chart aggregate and no raw-data table on the page;
\* and whenever any of those is on the page the FilteredView is not empty.
EmptySelectionStopsTheRun ==
    /\ (Finished /\ df_selection = <<>>) =>
           /\ outcome = "stopped"
           /\ warning
           /\ metrics = <<>>
           /\ scatter_chart = <<>>
           /\ bar_chart = <<>>
           /\ dataframe = <<>>
    /\ (metrics # <<>> \/ scatter_chart # <<>> \/ bar_chart # <<>> \/ dataframe # <<>>) =>
           /\ df_selection # <<>>
           /\ ~warning

\* A run over a non-empty Dataset whose filters matched nothing.
EmptySelectionWitness ==
    /\ Finished
    /\ df # <<>>
    /\ df_selection = <<>>
    /\ warning

(***************************************************************************)
(* C3                                                                      *)
(***************************************************************************)
\* C3: with no categorical selection and the slider at the Dataset's true
\* minimum and maximum of body_mass_g, the FilteredView is the whole Dataset,
\* in order, and the Total Penguins metric is the Dataset's size.
FullRangeKeepsWholeDataset ==
    ( /\ Finished
      /\ loaded[1] # <<>>
      /\ NoCategoricalSelection
      /\ Grams(body_mass_slider[1]) = SeriesMin(Masses(loaded[1]))
      /\ Grams(body_mass_slider[2]) = SeriesMax(Masses(loaded[1])) ) =>
        /\ df_selection = loaded[1]
        /\ outcome = "rendered"
        /\ metrics # <<>>
        /\ metrics[1].total = Len(loaded[1])

\* Such a run over a Dataset of at least two records of different mass.
FullRangeWitness ==
    /\ Finished
    /\ NoCategoricalSelection
    /\ Len(loaded[1]) >= 2
    /\ Grams(body_mass_slider[1]) = SeriesMin(Masses(loaded[1]))
    /\ Grams(body_mass_slider[2]) = SeriesMax(Masses(loaded[1]))
    /\ body_mass_slider[1] < body_mass_slider[2]

(***************************************************************************)
(* C4                                                                      *)
(***************************************************************************)
\* C4: the slider's default range is the Dataset's observed minimum and
\* maximum of body_mass_g, so a run with the default range and no categorical
\* selection excludes no record.
DefaultRangeIsObservedRange ==
    ( /\ Finished
      /\ NoCategoricalSelection
      /\ body_mass_slider = slider_default(df) ) =>
        /\ Grams(body_mass_slider[1]) = SeriesMin(Masses(df))
        /\ Grams(body_mass_slider[2]) = SeriesMax(Masses(df))
        /\ df_selection = df

(***************************************************************************)
(* C5                                                                      *)
(***************************************************************************)
\* C5 as stated: over any sequence of runs the remote CSV is fetched at most
\* once.
FetchedAtMostOnce == fetches <= 1

\* C5, amended: once a load has completed, no later step fetches the remote
\* CSV again or changes what is cached, and every run that has loaded holds
\* the cached Dataset.  (A load that fails stores nothing, so the next run
\* fetches again.)
CachedAfterFirstCompletedLoad ==
    [][ /\ cache # <<>> => (cache' = cache /\ fetches' = fetches)
        /\ served' # "none" => (cache' # <<>> /\ df' = cache'[1]) ]_vars

\* A run answered from the cache after the remote file has changed.
CacheHitWitness ==
    /\ served = "hit"
    /\ fetches >= 1
    /\ remote = <<>>
    /\ df # <<>>

(***************************************************************************)
(* C6                                                                      *)
(***************************************************************************)
\* frame holds exactly the rows of the file csv that have no missing cell, in
\* file order, under their row numbers.
IsCompleteRowsOf(csv, frame) ==
    /\ \A i \in 1..Len(frame) :
          /\ frame[i].na = {}
          /\ frame[i].index \in 0..(Len(csv) - 1)
          /\ frame[i] = [index |-> frame[i].index] @@ csv[frame[i].index + 1]
    /\ \A i, j \in 1..Len(frame) : i < j => frame[i].index < frame[j].index
    /\ \A k \in 1..Len(csv) :
          csv[k].na = {} => \E i \in 1..Len(frame) : frame[i].index = k - 1

\* C6: what a load stores is the fetched CSV without its rows that have a
\* missing value: every such row is removed, every other row is kept, in the
\* original order; so no record of the Dataset has a missing value.
LoadRemovesExactlyIncompleteRows ==
    [][ /\ cache' # cache => IsCompleteRowsOf(remote, cache'[1])
        /\ \A i \in 1..Len(df') : df'[i].na = {} ]_vars

\* A loaded Dataset in which a row was removed from between two kept rows.
RemovedRowWitness ==
    /\ loaded # <<>>
    /\ \E i \in 1..(Len(loaded[1]) - 1) :
          loaded[1][i + 1].index > loaded[1][i].index + 1

(***************************************************************************)
(* C7                                                                      *)
(***************************************************************************)
\* C7: a run whose load returned an empty Dataset ends in the EmptySelection
\* warning, and in no other failure.
EmptyDatasetEndsInWarning ==
    (pc = "idle" /\ served # "none" /\ df = <<>>) =>
        (outcome = "stopped" /\ warning)

(***************************************************************************)
(* C8                                                                      *)
(***************************************************************************)
\* C8: the Avg. Body Mass label is the two-decimal formatting of the
\* unrounded mean of body_mass_g divided by 1000.
AvgBodyMassKgFormatsUnroundedMean ==
    (pc = "idle" /\ outcome = "rendered") =>
        metrics[1].avg_body_mass =
            FixedPoint2(format_2f_kg(Sum(Masses(df_selection)),
                                     MassUnit * Len(df_selection)))

(***************************************************************************)
(* C9                                                                      *)
(***************************************************************************)
\* The species of the entries of the bar chart's series, in its order.
BarChartKeys == [i \in 1..Len(bar_chart[1]) |-> bar_chart[1][i][1]]

\* The place of a species name in the ascending order of names.
Rank(name) == CHOOSE i \in 1..Len(SpeciesSorted) : SpeciesSorted[i] = name

\* C9 as stated: the entries of avg_mass_by_species are in the order in which
\* each species is first seen in the FilteredView.
AggregateInFirstSeenOrder ==
    (pc = "idle" /\ outcome = "rendered") =>
        BarChartKeys = FirstSeen(Column(df_selection, "species"))

\* C9, amended: avg_mass_by_species has exactly one entry for each species
\* that occurs in the FilteredView and none for any other, and the entries are
\* in ascending order of species name.
AggregateInSortedOrder ==
    (pc = "idle" /\ outcome = "rendered") =>
        /\ unique(BarChartKeys) = unique(Column(df_selection, "species"))
        /\ \A i, j \in 1..Len(BarChartKeys) :
              i < j => Rank(BarChartKeys[i]) < Rank(BarChartKeys[j])

\* A FilteredView whose species are first seen in another order than the
\* ascending one.
UnsortedSpeciesWitness ==
    /\ pc = "idle" /\ outcome = "rendered"
    /\ Len(BarChartKeys) >= 2
    /\ FirstSeen(Column(df_selection, "species")) # BarChartKeys

(***************************************************************************)
(* C10                                                                     *)
(***************************************************************************)
\* What a finished run shows is a function of the Dataset and the criteria.
PageOf(dataset, sp, isl, sx, slider) ==
    LET sel == df_selection_of(dataset, sp, isl, sx, slider)
    IN  IF sel = <<>>
        THEN [df_selection |-> sel, warning |-> TRUE, metrics |-> <<>>,
              scatter_chart |-> <<>>, bar_chart |-> <<>>, dataframe |-> <<>>]
        ELSE [df_selection |-> sel, warning |-> FALSE,
              metrics |-> <<key_metrics(sel)>>,
              scatter_chart |-> <<scatter_points(sel)>>,
              bar_chart |-> <<avg_mass_by_species_of(sel)>>,
              dataframe |-> <<sel>>]

\* C10: the Dataset stays the one the first completed load returned, every
\* run works on it, and what a finished run computed (FilteredView, Metrics,
\* aggregates) is determined by that Dataset and the run's criteria alone, so
\* that two runs with the same criteria agree whatever ran in between.
RunsDependOnlyOnDatasetAndCriteria ==
    /\ loaded # <<>> => cache = loaded
    /\ served # "none" => (loaded # <<>> /\ df = loaded[1])
    /\ Finished =>
          [df_selection |-> df_selection, warning |-> warning,
           metrics |-> metrics, scatter_chart |-> scatter_chart,
           bar_chart |-> bar_chart, dataframe |-> dataframe]
             = PageOf(loaded[1], species, island, sex, body_mass_slider)

\* A finished run that was answered from the cache (so an earlier run had
\* loaded), after the remote file changed, and that filtered records out.
LaterRunWitness ==
    /\ Finished
    /\ outcome = "rendered"
    /\ served = "hit"
    /\ remote = <<>>
    /\ Len(df_selection) < Len(loaded[1])

============================================================================
